---- MODULE Spec2Model ----
(***************************************************************************)
(* Model of mc-manager.py: the installed-content ledger of                 *)
(* MinecraftManager, its persisted copy, the three category directories    *)
(* and the operations install / search / list / uninstall / update.        *)
(*                                                                         *)
(* The remote registry (Modrinth) is the environment: every call returns   *)
(* one of a small set of responses.  The update loop is modelled one       *)
(* candidate per step, with the loop position kept in pc/todo/items.       *)
(* main() runs one command per process: after a command the process ends   *)
(* and the next one starts by loading the ledger file again.               *)
(***************************************************************************)
EXTENDS Integers, Sequences, FiniteSets, TLC

VARIABLES
    ledger,     \* self.installed_content : category -> ordered dict (sequence of entries)
    persisted,  \* content of minecraft_manager_config.json
    dir,        \* category directory : filename -> state of that file
    pc,         \* "ready" (constructed) | "update_cat" | "update_item" | "exit"
    todo,       \* update: categories still to process (head = current one)
    items,      \* update: items_to_check still to process (snapshots of entries)
    uquery,     \* update: name_query of the running update
    ucat,       \* update: the content_type argument ("all" when omitted)
    checked,    \* update: <<category, id>> of every "Checking ..." line so far
    last        \* what the last step did: arguments, registry responses, report

vars == <<ledger, persisted, dir, pc, todo, items, uquery, ucat, checked, last>>

----------------------------------------------------------------------------
(* Bounds *)

MaxVersions == 2      \* versions each project has in the registry
MaxQueryLen == 2      \* length of a name query
MaxSel == 3           \* largest number typed at the selection prompt

----------------------------------------------------------------------------
(* Categories, directories and buckets *)

ContentType == <<"mods", "resourcepacks", "shaderpacks">>

Categories == {ContentType[i] : i \in 1..Len(ContentType)}

ProjectIds == {"p1", "p2", "p3"}

\* the (project, category) pairs the user installs
Targets == {<<"p1", "mods">>, <<"p2", "mods">>, <<"p3", "shaderpacks">>}

Filenames == {"fa", "fb", "fc"}

FileStates == {"absent", "full", "partial"}

EmptyLedger == [c \in Categories |-> <<>>]

EmptyDir == [f \in Filenames |-> "absent"]

get_content_dict(led, c) == led[c]

get_content_path(d, c) == d[c]

exists(dirc, f) == dirc[f] # "absent"

----------------------------------------------------------------------------
(* Strings: display names and queries are sequences of characters *)

Lower(ch) ==
    CASE ch = "A" -> "a"
      [] ch = "B" -> "b"
      [] OTHER -> ch

LowerSeq(s) == [i \in 1..Len(s) |-> Lower(s[i])]

RECURSIVE FindFrom(_, _, _)
FindFrom(needle, hay, i) ==
    IF i + Len(needle) - 1 > Len(hay) THEN FALSE
    ELSE IF SubSeq(hay, i, i + Len(needle) - 1) = needle THEN TRUE
    ELSE FindFrom(needle, hay, i + 1)

\* a comparison for equality where the code tests containment
StrEq(needle, hay) == needle = hay

\* python: needle in hay
StrIn(needle, hay) == FindFrom(needle, hay, 1)

QueryChars == {"a", "B"}

RECURSIVE SeqsUpTo(_, _)
SeqsUpTo(S, n) ==
    IF n = 0 THEN {<<>>}
    ELSE LET shorter == SeqsUpTo(S, n - 1)
         IN  shorter \cup {Append(s, x) : s \in {t \in shorter : Len(t) = n - 1}, x \in S}

Queries == SeqsUpTo(QueryChars, MaxQueryLen)

----------------------------------------------------------------------------
(* The registry *)

Title(p) ==
    CASE p = "p1" -> <<"A", "b">>
      [] p = "p2" -> <<"a", "B", "a">>
      [] OTHER    -> <<"b", "b">>

EmptyProject == [found |-> FALSE, title |-> <<>>]

\* get_project: the project, or {} on failure / not found
ProjectResponses(p) == {EmptyProject, [found |-> TRUE, title |-> Title(p)]}

File(name, prim) == [filename |-> name, primary |-> prim]

FilesOf(p, k) ==
    CASE p = "p1" /\ k % 2 = 1 -> <<File("fa", FALSE), File("fb", TRUE)>>
      [] p = "p1" /\ k % 2 = 0 -> <<File("fa", FALSE), File("fb", FALSE)>>
      [] p = "p2" /\ k % 2 = 1 -> <<File("fa", TRUE)>>
      [] p = "p2" /\ k % 2 = 0 -> <<File("fa", TRUE), File("fb", TRUE)>>
      [] p = "p3" /\ k % 2 = 1 -> <<File("fc", TRUE)>>
      [] OTHER                 -> <<File("fb", FALSE), File("fc", TRUE)>>

Version(p, k) ==
    [version_number |-> <<"v", k>>, date_published |-> <<"d", k>>, files |-> FilesOf(p, k)]

\* the project's versions, newest first
History(p) == [i \in 1..MaxVersions |-> Version(p, MaxVersions + 1 - i)]

NoFiles(v) == [v EXCEPT !.files = <<>>]

\* get_versions: a newest-first list (all versions, or those left by a game
\* version filter or an earlier registry state), possibly with a newest
\* version that has no files; [] on failure
VersionResponses(p) ==
    LET h == History(p)
        suffixes == {SubSeq(h, i, Len(h)) : i \in 1..(Len(h) + 1)}
    IN  suffixes \cup {<<NoFiles(Head(s))>> \o Tail(s) : s \in {t \in suffixes : t # <<>>}}

NoVersions == <<>>

DownloadOutcomes == {"ok", "error_before_write", "error_while_writing"}

\* download_file: the destination directory afterwards
download_file_dir(dirc, f, outcome) ==
    CASE outcome = "ok"                  -> [dirc EXCEPT ![f] = "full"]
      [] outcome = "error_while_writing" -> [dirc EXCEPT ![f] = "partial"]
      [] OTHER                           -> dirc

\* a download that reports success whatever happened
download_file_always_ok(outcome) == TRUE

\* download_file: the boolean it returns
download_file_ok(outcome) == outcome = "ok"

RECURSIVE FirstPrimary(_, _)
FirstPrimary(files, i) ==
    IF i > Len(files) THEN files[1]
    ELSE IF files[i].primary THEN files[i]
    ELSE FirstPrimary(files, i + 1)

\* files[0] whatever the flags
FirstFile(files) == files[1]

\* next((f for f in files if f.get("primary")), files[0])
PrimaryFile(files) == FirstPrimary(files, 1)

\* versions[0]
LatestVersion(versions) == versions[1]

----------------------------------------------------------------------------
(* Ordered dict operations on a bucket *)

Ids(bucket) == {bucket[i].id : i \in 1..Len(bucket)}

EntryOf(bucket, p) == bucket[CHOOSE i \in 1..Len(bucket) : bucket[i].id = p]

\* content_dict[project_id] = {...}: replaces in place, or appends
DictSet(bucket, e) ==
    IF e.id \in Ids(bucket)
    THEN [i \in 1..Len(bucket) |-> IF bucket[i].id = e.id THEN e ELSE bucket[i]]
    ELSE Append(bucket, e)

\* content_dict.clear() where the code deletes one key
DictClear(bucket, p) == <<>>

\* del content_dict[project_id]
DictDel(bucket, p) == SelectSeq(bucket, LAMBDA e : e.id # p)

\* [(pid, info) for pid, info in content_dict.items() if name_query.lower() in info["name"].lower()]
Matches(bucket, q) == SelectSeq(bucket, LAMBDA e : StrIn(LowerSeq(q), LowerSeq(e.name)))

\* a save that writes the "mods" bucket only
SavedModsOnly(led) ==
    [state |-> "ok", content |-> [c \in Categories |-> IF c = "mods" THEN led[c] ELSE <<>>]]

\* _save_installed_content: the file holds the whole in-memory ledger
Saved(led) == [state |-> "ok", content |-> led]

\* _load_installed_content: the default structure when the file is missing or corrupted
Load(file) == IF file.state = "ok" THEN file.content ELSE EmptyLedger

----------------------------------------------------------------------------
(* The report of a step *)

NoSel == [kind |-> "none", value |-> 0]

\* input(): a number, something int() rejects, or end of input
Selections == {[kind |-> "int", value |-> n] : n \in 0..MaxSel}
                \cup {[kind |-> "text", value |-> 0], [kind |-> "eof", value |-> 0]}

RemoveOutcomes == {"ok", "oserror"}

NoReport ==
    [op |-> "init", cat |-> "none", pid |-> "none", outcome |-> "none",
     query |-> <<>>, sel |-> NoSel, project |-> EmptyProject, versions |-> NoVersions,
     download |-> "none", remove |-> "none", saved |-> FALSE]

\* the command returns to main(), and the process ends
Return ==
    /\ pc' = "exit"
    /\ UNCHANGED <<todo, items, uquery, ucat, checked>>

Init ==
    /\ persisted \in {[state |-> "missing", content |-> EmptyLedger],
                      [state |-> "corrupt", content |-> EmptyLedger]}
    /\ ledger = Load(persisted)
    /\ dir = [c \in Categories |-> EmptyDir]
    /\ pc = "ready"
    /\ todo = <<>>
    /\ items = <<>>
    /\ uquery = <<>>
    /\ ucat = "all"
    /\ checked = <<>>
    /\ last = NoReport

----------------------------------------------------------------------------
(* install *)

InstallOutcome(project, versions, download) ==
    IF ~project.found THEN "project_not_found"
    ELSE IF versions = <<>> THEN "no_versions"
    ELSE IF LatestVersion(versions).files = <<>> THEN "no_files"
    ELSE IF download_file_ok(download) THEN "installed"
    ELSE "install_failed"

InstallEntry(p, project, versions) ==
    LET version == LatestVersion(versions)
    IN  [id |-> p,
         name |-> project.title,
         version |-> version.version_number,
         filename |-> PrimaryFile(version.files).filename,
         installed_at |-> version.date_published]

install(p, c, project, versions, download) ==
    LET outcome == InstallOutcome(project, versions, download)
        downloads == outcome \in {"installed", "install_failed"}
        filename == PrimaryFile(LatestVersion(versions).files).filename
    IN  /\ dir' = IF downloads
                  THEN [dir EXCEPT ![c] = download_file_dir(get_content_path(dir, c), filename, download)]
                  ELSE dir
        /\ IF outcome = "installed"
           THEN /\ ledger' = [ledger EXCEPT ![c] = DictSet(get_content_dict(ledger, c),
                                                           InstallEntry(p, project, versions))]
                /\ persisted' = Saved(ledger')
           ELSE UNCHANGED <<ledger, persisted>>
        /\ last' = [NoReport EXCEPT !.op = "install", !.cat = c, !.pid = p,
                                    !.outcome = outcome,
                                    !.project = project,
                                    !.versions = IF project.found THEN versions ELSE NoVersions,
                                    !.download = IF downloads THEN download ELSE "none",
                                    !.saved = (outcome = "installed")]
        /\ Return

\* inputs that the call never reads are fixed
InstallInputs(project, versions, download) ==
    /\ ~project.found => versions = NoVersions
    /\ (~project.found \/ versions = <<>> \/ LatestVersion(versions).files = <<>>)
          => download = "ok"

Install ==
    /\ pc = "ready"
    /\ \E t \in Targets, download \in DownloadOutcomes :
         \E project \in ProjectResponses(t[1]), versions \in VersionResponses(t[1]) :
            /\ InstallInputs(project, versions, download)
            /\ install(t[1], t[2], project, versions, download)

----------------------------------------------------------------------------
(* search: shows the hits and installs the selected one *)

\* results["hits"] for a category: the projects of that category, or none
Hits(c) ==
    LET ps == {t[1] : t \in {u \in Targets : u[2] = c}}
    IN  {<<>>} \cup {<<p>> : p \in ps} \cup {h \in {<<p, r>> : p \in ps, r \in ps} : h[1] # h[2]}

Search ==
    /\ pc = "ready"
    /\ \E c \in Categories :
         \E hits \in Hits(c) :
            IF hits = <<>>
            THEN /\ last' = [NoReport EXCEPT !.op = "search", !.cat = c, !.outcome = "no_results"]
                 /\ UNCHANGED <<ledger, persisted, dir>>
                 /\ Return
            ELSE \E sel \in Selections :
                    IF sel.kind = "int" /\ 1 <= sel.value /\ sel.value <= Len(hits)
                    THEN \E download \in DownloadOutcomes :
                           \E project \in ProjectResponses(hits[sel.value]),
                              versions \in VersionResponses(hits[sel.value]) :
                                /\ InstallInputs(project, versions, download)
                                /\ install(hits[sel.value], c, project, versions, download)
                    ELSE /\ last' = [NoReport EXCEPT !.op = "search", !.cat = c, !.sel = sel,
                                        !.outcome = CASE sel.kind = "text" -> "invalid_selection"
                                                      [] sel.kind = "eof"  -> "aborted"
                                                      [] OTHER             -> "cancelled"]
                         /\ UNCHANGED <<ledger, persisted, dir>>
                         /\ Return

----------------------------------------------------------------------------
(* list *)

list_installed ==
    /\ pc = "ready"
    /\ \E c \in Categories :
         /\ last' = [NoReport EXCEPT !.op = "list", !.cat = c,
                        !.outcome = IF get_content_dict(ledger, c) = <<>>
                                    THEN "none_installed" ELSE "listed"]
         /\ UNCHANGED <<ledger, persisted, dir>>
         /\ Return

----------------------------------------------------------------------------
(* uninstall *)

\* matches[selection] where the code takes matches[selection - 1]
SelectedIndexFromZero(matches, sel) ==
    IF Len(matches) = 1 THEN 1
    ELSE IF sel.kind = "int" /\ 0 <= sel.value /\ sel.value < Len(matches) THEN sel.value + 1
    ELSE 0

\* the outcome of the selection among the matches: the index of the target, or 0
SelectedIndex(matches, sel) ==
    IF Len(matches) = 1 THEN 1
    ELSE IF sel.kind = "int" /\ 1 <= sel.value /\ sel.value <= Len(matches) THEN sel.value
    ELSE 0

\* an uninstall that goes on after os.remove failed
UninstallOutcomeIgnoringError(bucket, dirc, q, sel, rm) ==
    LET matches == Matches(bucket, q)
        k == SelectedIndex(matches, sel)
    IN  IF matches = <<>> THEN "no_match"
        ELSE IF k = 0
             THEN CASE sel.kind = "text" -> "invalid_selection"
                    [] sel.kind = "eof"  -> "aborted"
                    [] OTHER             -> "cancelled"
        ELSE "uninstalled"

UninstallOutcome(bucket, dirc, q, sel, rm) ==
    LET matches == Matches(bucket, q)
        k == SelectedIndex(matches, sel)
    IN  IF matches = <<>> THEN "no_match"
        ELSE IF k = 0
             THEN CASE sel.kind = "text" -> "invalid_selection"
                    [] sel.kind = "eof"  -> "aborted"
                    [] OTHER             -> "cancelled"
        ELSE IF exists(dirc, matches[k].filename) /\ rm = "oserror" THEN "remove_error"
        ELSE "uninstalled"

uninstall(q, c, sel, rm) ==
    LET bucket == get_content_dict(ledger, c)
        dirc == get_content_path(dir, c)
        matches == Matches(bucket, q)
        k == SelectedIndex(matches, sel)
        outcome == UninstallOutcome(bucket, dirc, q, sel, rm)
        target == IF k = 0 \/ matches = <<>> THEN "none" ELSE matches[k].id
    IN  /\ IF outcome = "uninstalled"
           THEN /\ dir' = [dir EXCEPT ![c][matches[k].filename] = "absent"]
                /\ ledger' = [ledger EXCEPT ![c] = DictDel(bucket, target)]
                /\ persisted' = Saved(ledger')
           ELSE UNCHANGED <<ledger, persisted, dir>>
        /\ last' = [NoReport EXCEPT !.op = "uninstall", !.cat = c, !.pid = target,
                                    !.query = q, !.sel = sel, !.outcome = outcome,
                                    !.remove = rm,
                                    !.saved = (outcome = "uninstalled")]
        /\ Return

Uninstall ==
    /\ pc = "ready"
    /\ \E q \in Queries, c \in Categories, sel \in Selections \cup {NoSel}, rm \in RemoveOutcomes \cup {"none"} :
         LET bucket == get_content_dict(ledger, c)
             matches == Matches(bucket, q)
             k == SelectedIndex(matches, sel)
         IN  \* the prompt is read only when there are several matches, and
             \* os.remove is called only when the target's file exists
             /\ (sel # NoSel) <=> (Len(matches) > 1)
             /\ (rm # "none") <=> (matches # <<>> /\ k # 0
                                     /\ exists(get_content_path(dir, c), matches[k].filename))
             /\ uninstall(q, c, sel, rm)

----------------------------------------------------------------------------
(* update *)

\* update(content_type, name_query): content_type None loops over ContentType
Update ==
    /\ pc = "ready"
    /\ \E ct \in Categories \cup {"all"}, q \in Queries :
         /\ ucat' = ct
         /\ uquery' = q
         /\ todo' = IF ct = "all" THEN ContentType ELSE <<ct>>
         /\ items' = <<>>
         /\ checked' = <<>>
         /\ pc' = "update_cat"
         /\ last' = [NoReport EXCEPT !.op = "update_call", !.cat = ct, !.query = q]
         /\ UNCHANGED <<ledger, persisted, dir>>

\* items_to_check of one category
ItemsToCheck(bucket, q) == IF q # <<>> THEN Matches(bucket, q) ELSE bucket

\* the position after the current category is finished
NextCategory ==
    /\ todo' = Tail(todo)
    /\ pc' = IF Tail(todo) = <<>> THEN "exit" ELSE "update_cat"

UpdateCategory ==
    /\ pc = "update_cat"
    /\ LET c == Head(todo)
           its == ItemsToCheck(get_content_dict(ledger, c), uquery)
       IN  /\ items' = its
           /\ IF its = <<>>
              THEN NextCategory
              ELSE /\ pc' = "update_item"
                   /\ todo' = todo
           /\ last' = [NoReport EXCEPT !.op = "update_select", !.cat = c, !.query = uquery,
                          !.outcome = IF its # <<>> THEN "checking"
                                      ELSE IF uquery # <<>> THEN "no_match"
                                      ELSE "none_installed"]
           /\ UNCHANGED <<ledger, persisted, dir, uquery, ucat, checked>>

\* an update that does not compare the version labels
UpdateOutcomeNoSkip(info, versions, download) ==
    IF versions = <<>> THEN "no_versions"
    ELSE IF LatestVersion(versions).files = <<>> THEN "no_files"
    ELSE IF download_file_ok(download) THEN "updated"
    ELSE "update_failed"

UpdateOutcome(info, versions, download) ==
    IF versions = <<>> THEN "no_versions"
    ELSE IF LatestVersion(versions).version_number = info.version THEN "up_to_date"
    ELSE IF LatestVersion(versions).files = <<>> THEN "no_files"
    ELSE IF download_file_ok(download) THEN "updated"
    ELSE "update_failed"

UpdateEntry(info, versions) ==
    LET latest == LatestVersion(versions)
    IN  [id |-> info.id,
         name |-> info.name,
         version |-> latest.version_number,
         filename |-> PrimaryFile(latest.files).filename,
         installed_at |-> latest.date_published]

\* the old file is removed when the names differ, it exists and os.remove succeeds
RemovesOld(dirc, old, new, rm) == old # new /\ exists(dirc, old) /\ rm = "ok"

\* an update that gives up when the old file cannot be removed
update_item_abort_on_oserror(c, info, versions, download, rm) ==
    LET outcome == UpdateOutcome(info, versions, download)
        downloads == outcome \in {"updated", "update_failed"}
        new_filename == PrimaryFile(LatestVersion(versions).files).filename
        downloaded == download_file_dir(get_content_path(dir, c), new_filename, download)
        commits == outcome = "updated" /\ rm # "oserror"
    IN  /\ dir' = IF ~downloads THEN dir
                  ELSE IF outcome = "updated" /\ RemovesOld(downloaded, info.filename, new_filename, rm)
                       THEN [dir EXCEPT ![c] = [downloaded EXCEPT ![info.filename] = "absent"]]
                       ELSE [dir EXCEPT ![c] = downloaded]
        /\ IF commits
           THEN /\ ledger' = [ledger EXCEPT ![c] = DictSet(get_content_dict(ledger, c),
                                                           UpdateEntry(info, versions))]
                /\ persisted' = Saved(ledger')
           ELSE UNCHANGED <<ledger, persisted>>
        /\ last' = [NoReport EXCEPT !.op = "update", !.cat = c, !.pid = info.id,
                                    !.query = uquery, !.outcome = outcome,
                                    !.versions = versions,
                                    !.download = IF downloads THEN download ELSE "none",
                                    !.remove = rm,
                                    !.saved = commits]

update_item(c, info, versions, download, rm) ==
    LET outcome == UpdateOutcome(info, versions, download)
        downloads == outcome \in {"updated", "update_failed"}
        new_filename == PrimaryFile(LatestVersion(versions).files).filename
        downloaded == download_file_dir(get_content_path(dir, c), new_filename, download)
    IN  /\ dir' = IF ~downloads THEN dir
                  ELSE IF outcome = "updated" /\ RemovesOld(downloaded, info.filename, new_filename, rm)
                       THEN [dir EXCEPT ![c] = [downloaded EXCEPT ![info.filename] = "absent"]]
                       ELSE [dir EXCEPT ![c] = downloaded]
        /\ IF outcome = "updated"
           THEN /\ ledger' = [ledger EXCEPT ![c] = DictSet(get_content_dict(ledger, c),
                                                           UpdateEntry(info, versions))]
                /\ persisted' = Saved(ledger')
           ELSE UNCHANGED <<ledger, persisted>>
        /\ last' = [NoReport EXCEPT !.op = "update", !.cat = c, !.pid = info.id,
                                    !.query = uquery, !.outcome = outcome,
                                    !.versions = versions,
                                    !.download = IF downloads THEN download ELSE "none",
                                    !.remove = rm,
                                    !.saved = (outcome = "updated")]

\* a loop that stops at the first item that is not updated
RemainingUntilFailure(its, outcome) == IF outcome = "updated" THEN Tail(its) ELSE <<>>

\* the loop goes on with the next item whatever the outcome (continue, or the end of the body)
Remaining(its, outcome) == Tail(its)

UpdateItem ==
    /\ pc = "update_item"
    /\ LET c == Head(todo)
           info == Head(items)
       IN  \E versions \in VersionResponses(info.id), download \in DownloadOutcomes,
              rm \in RemoveOutcomes \cup {"none"} :
              LET outcome == UpdateOutcome(info, versions, download)
                  new_filename == PrimaryFile(LatestVersion(versions).files).filename
                  rest == Remaining(items, outcome)
              IN  \* inputs that the step never reads are fixed
                  /\ outcome \in {"no_versions", "up_to_date", "no_files"} => download = "ok"
                  /\ (rm # "none") <=>
                       (/\ outcome = "updated"
                        /\ info.filename # new_filename
                        /\ exists(download_file_dir(get_content_path(dir, c), new_filename, download),
                                  info.filename))
                  /\ update_item(c, info, versions, download, rm)
                  /\ checked' = Append(checked, <<c, info.id>>)
                  /\ items' = rest
                  /\ IF rest = <<>>
                     THEN NextCategory
                     ELSE UNCHANGED <<pc, todo>>
                  /\ UNCHANGED <<uquery, ucat>>

----------------------------------------------------------------------------
(* the next run of the program: main() constructs a new MinecraftManager *)

Start ==
    /\ pc = "exit"
    /\ ledger' = Load(persisted)
    /\ pc' = "ready"
    /\ todo' = <<>>
    /\ items' = <<>>
    /\ uquery' = <<>>
    /\ ucat' = "all"
    /\ checked' = <<>>
    /\ last' = NoReport
    /\ UNCHANGED <<persisted, dir>>

Next ==
    \/ Start
    \/ Install
    \/ Search
    \/ list_installed
    \/ Uninstall
    \/ Update
    \/ UpdateCategory
    \/ UpdateItem

Spec == Init /\ [][Next]_vars

----------------------------------------------------------------------------
(* The runs without I/O failure: every download_file succeeds, every
   os.remove succeeds and the selection prompt is answered *)

NoIOFailure(report) ==
    /\ report.download \in {"none", "ok"}
    /\ report.remove \in {"none", "ok"}
    /\ report.sel.kind # "eof"

NextNoFailure ==
    \/ Start /\ NoIOFailure(last')
    \/ Install /\ NoIOFailure(last')
    \/ Search /\ NoIOFailure(last')
    \/ list_installed /\ NoIOFailure(last')
    \/ Uninstall /\ NoIOFailure(last')
    \/ Update /\ NoIOFailure(last')
    \/ UpdateCategory /\ NoIOFailure(last')
    \/ UpdateItem /\ NoIOFailure(last')

SpecNoFailure == Init /\ [][NextNoFailure]_vars

----------------------------------------------------------------------------
(* Vocabulary of the properties, stated from the specification *)

\* lower-casing of a name or a query
ToLower(s) == [i \in 1..Len(s) |->
                 IF s[i] = "A" THEN "a" ELSE IF s[i] = "B" THEN "b" ELSE s[i]]

\* needle occurs in hay as a contiguous substring
Contains(hay, needle) ==
    \E i \in 0..Len(hay) : /\ i + Len(needle) <= Len(hay)
                           /\ \A j \in 1..Len(needle) : hay[i + j] = needle[j]

\* the entries of a bucket whose display name matches the query, in bucket order
Candidates(bucket, q) == SelectSeq(bucket, LAMBDA e : Contains(ToLower(e.name), ToLower(q)))

\* the file flagged primary, else the first file
FlaggedOrFirst(files) ==
    IF \E i \in 1..Len(files) : files[i].primary
    THEN files[CHOOSE i \in 1..Len(files) :
                  /\ files[i].primary
                  /\ \A j \in 1..(i - 1) : ~files[j].primary]
    ELSE files[1]

\* the ledger file holds exactly this ledger
OnDisk(led) == persisted.state = "ok" /\ persisted.content = led

Positions(bucket, p) == {i \in 1..Len(bucket) : bucket[i].id = p}

DownloadFailed(report) == report.download \in {"error_before_write", "error_while_writing"}

----------------------------------------------------------------------------
(* C1: after an install whose download succeeded, the bucket of the category
   holds exactly one entry for the identifier, with name = the project title,
   version = the label of the first version of the returned list, filename =
   the name of that version's primary file, installed_at = that version's
   publish timestamp, and that file is present in the category directory;
   for a first install and for a re-install alike. *)
C1_InstallUpserts ==
    (last.op = "install" /\ last.download = "ok") =>
        LET bucket == ledger[last.cat]
            version == Head(last.versions)
            file == FlaggedOrFirst(version.files)
        IN  /\ Cardinality(Positions(bucket, last.pid)) = 1
            /\ \A i \in Positions(bucket, last.pid) :
                  bucket[i] = [id |-> last.pid,
                               name |-> last.project.title,
                               version |-> version.version_number,
                               filename |-> file.filename,
                               installed_at |-> version.date_published]
            /\ dir[last.cat][file.filename] = "full"

\* p1 re-installed over its entry (it is still first in the bucket, before
\* p2), from a list of two versions whose first one has no flagged file
C1_Witness ==
    /\ last.op = "install" /\ last.download = "ok" /\ last.pid = "p1"
    /\ Len(last.versions) = 2
    /\ Len(ledger["mods"]) = 2
    /\ ledger["mods"][1].id = "p1"
    /\ ledger["mods"][1].filename = "fa"
    /\ dir["mods"]["fa"] = "full"

(* C2: a failed install (project empty, version list empty, newest version
   without files, download failed) and a failed download of an update
   candidate leave the in-memory ledger and the ledger file as they were. *)
C2_FailureKeepsLedger ==
    [][ ( \/ /\ last'.op = "install"
             /\ \/ ~last'.project.found
                \/ last'.versions = <<>>
                \/ Head(last'.versions).files = <<>>
                \/ DownloadFailed(last')
          \/ /\ last'.op = "update"
             /\ DownloadFailed(last') )
        => (ledger' = ledger /\ persisted' = persisted) ]_vars

\* a re-install of p2 whose download broke off while the file was written,
\* with p2's entry in the ledger and in the ledger file
C2_Witness ==
    /\ last.op = "install" /\ last.download = "error_while_writing"
    /\ last.pid = "p2"
    /\ "p2" \in Ids(ledger["mods"])
    /\ OnDisk(ledger)
    /\ dir["mods"]["fa"] = "partial"

(* C3: in uninstall, the entry of the selected match is removed and the
   ledger saved if and only if the entry's file is absent from the directory
   after the deletion step: removed when the file was deleted or was already
   missing; when the deletion fails, ledger, ledger file and file stay. *)
C3_UninstallFollowsFile ==
    [][ (last'.op = "uninstall" /\ last'.pid # "none") =>
          LET c == last'.cat
              p == last'.pid
              f == EntryOf(ledger[c], p).filename
              removed == p \notin Ids(ledger'[c])
          IN  /\ removed <=> dir'[c][f] = "absent"
              /\ removed => (last'.saved /\ persisted'.state = "ok" /\ persisted'.content = ledger')
              /\ ~removed => (~last'.saved /\ UNCHANGED <<ledger, persisted, dir>>)
              /\ dir[c][f] = "absent" => removed
              /\ (dir[c][f] # "absent" /\ last'.remove = "ok") => removed
              /\ (dir[c][f] # "absent" /\ last'.remove = "oserror") => ~removed ]_vars

\* p1 uninstalled although its file was already missing (os.remove was not
\* called): the file went with p2, which had the same filename
C3_Witness ==
    /\ last.op = "uninstall" /\ last.pid = "p1" /\ last.remove = "none"
    /\ last.outcome = "uninstalled"
    /\ ledger["mods"] = <<>>
    /\ OnDisk(ledger)

\* a bucket without the entry of one identifier
Without(bucket, p) == SelectSeq(bucket, LAMBDA e : e.id # p)

(* C4: uninstall mutates nothing (no file, neither the in-memory ledger nor
   the ledger file) unless exactly one target is resolved: nothing with zero
   matches; with two or more matches nothing unless the selection is a number
   in 1..number of matches (a non-numeric, zero, out-of-range or missing
   selection aborts); a valid selection makes the entry at that index of the
   match list the target, which is removed (unless the deletion step fails,
   C3) while every other entry stays. *)
C4_UninstallNeedsOneTarget ==
    [][ last'.op = "uninstall" =>
          LET c == last'.cat
              sel == last'.sel
              ms == Candidates(ledger[c], last'.query)
              valid == sel.kind = "int" /\ sel.value \in 1..Len(ms)
          IN  /\ Len(ms) = 0 => UNCHANGED <<ledger, persisted, dir>>
              /\ (Len(ms) >= 2 /\ ~valid) => UNCHANGED <<ledger, persisted, dir>>
              /\ (Len(ms) >= 2 /\ valid) =>
                    LET target == ms[sel.value]
                    IN  /\ last'.pid = target.id
                        /\ IF last'.remove = "oserror"
                           THEN UNCHANGED <<ledger, persisted, dir>>
                           ELSE /\ ledger' = [ledger EXCEPT ![c] = Without(ledger[c], target.id)]
                                /\ dir' = [dir EXCEPT ![c][target.filename] = "absent"]
              /\ Len(ms) = 1 => last'.pid = ms[1].id ]_vars

\* two matches in the order p2, p1, and the selection 2 removed p1 only
C4_Witness ==
    /\ last.op = "uninstall" /\ last.sel = [kind |-> "int", value |-> 2]
    /\ last.pid = "p1"
    /\ Ids(ledger["mods"]) = {"p2"}
    /\ OnDisk(ledger)

(* C5: for an update candidate whose latest remote label (first element of
   the returned list) equals the recorded label, update does nothing: no
   download, no file created, overwritten or deleted, no change of the
   ledger and no write of the ledger file. *)
C5_UpToDateIsNoOp ==
    [][ ( /\ last'.op = "update"
          /\ last'.versions # <<>>
          /\ Head(last'.versions).version_number
                = EntryOf(ledger[last'.cat], last'.pid).version )
        => ( /\ last'.download = "none"
             /\ last'.remove = "none"
             /\ ~last'.saved
             /\ UNCHANGED <<ledger, persisted, dir>> ) ]_vars

\* p1 at the newest label, checked against a list of two versions and skipped
C5_Witness ==
    /\ last.op = "update" /\ last.pid = "p1" /\ last.outcome = "up_to_date"
    /\ Len(last.versions) = 2
    /\ Head(last.versions).version_number = EntryOf(ledger["mods"], "p1").version
    /\ last.download = "none"

(* C6: when the new file of an update candidate downloads successfully, its
   name differs from the old one and deleting the old file fails, the entry
   is still updated to the new label, filename and publish timestamp (same
   display name), the ledger is saved, the new file is in the directory, and
   the old file stays. *)
C6_StaleFileIsOnlyWarning ==
    [][ (last'.op = "update" /\ last'.download = "ok" /\ last'.remove = "oserror") =>
          LET c == last'.cat
              old == EntryOf(ledger[c], last'.pid)
              latest == Head(last'.versions)
              file == FlaggedOrFirst(latest.files)
          IN  /\ file.filename # old.filename
              /\ ledger' = [ledger EXCEPT ![c] =
                    [i \in 1..Len(ledger[c]) |->
                        IF ledger[c][i].id = old.id
                        THEN [id |-> old.id, name |-> old.name,
                              version |-> latest.version_number,
                              filename |-> file.filename,
                              installed_at |-> latest.date_published]
                        ELSE ledger[c][i]]]
              /\ last'.saved /\ persisted'.state = "ok" /\ persisted'.content = ledger'
              /\ dir'[c][file.filename] = "full"
              /\ dir'[c][old.filename] = dir[c][old.filename] ]_vars

\* p1 updated from fb to fa while fb could not be removed
C6_Witness ==
    /\ last.op = "update" /\ last.remove = "oserror" /\ last.pid = "p1"
    /\ EntryOf(ledger["mods"], "p1").filename = "fa"
    /\ EntryOf(ledger["mods"], "p1").version = Head(last.versions).version_number
    /\ dir["mods"]["fa"] = "full"
    /\ dir["mods"]["fb"] # "absent"
    /\ OnDisk(ledger)

\* the categories an update call goes through
UpdateCategories(ct) == IF ct = "all" THEN <<"mods", "resourcepacks", "shaderpacks">> ELSE <<ct>>

\* the candidates of an update in one category
UpdateCandidates(bucket, q) == IF q = <<>> THEN bucket ELSE Candidates(bucket, q)

RECURSIVE ExpectedChecks(_, _)
\* <<category, identifier>> of every candidate, category by category
ExpectedChecks(cats, q) ==
    IF cats = <<>> THEN <<>>
    ELSE LET cands == UpdateCandidates(ledger[Head(cats)], q)
         IN  [i \in 1..Len(cands) |-> <<Head(cats), cands[i].id>>] \o ExpectedChecks(Tail(cats), q)

UpdateReturned == pc = "exit" /\ last.op \in {"update", "update_select"}

(* C7: update processes every candidate whatever happens to the others: when
   it returns, every candidate of every category it was asked for has been
   checked exactly once, in order, a skipped or failed candidate or an empty
   or unmatched category notwithstanding (all three categories when the
   category is omitted); and every candidate whose latest label differs and
   whose download succeeds is updated. *)
C7_UpdateChecksEveryCandidate ==
    /\ [](UpdateReturned =>
            /\ checked = ExpectedChecks(UpdateCategories(ucat), uquery)
            /\ last.cat = UpdateCategories(ucat)[Len(UpdateCategories(ucat))])
    /\ [](pc \in {"update_cat", "update_item"} =>
            \E n \in 0..Len(ExpectedChecks(UpdateCategories(ucat), uquery)) :
                checked = SubSeq(ExpectedChecks(UpdateCategories(ucat), uquery), 1, n))
    /\ [][ ( /\ last'.op = "update"
             /\ last'.versions # <<>>
             /\ Head(last'.versions).version_number # EntryOf(ledger[last'.cat], last'.pid).version
             /\ Head(last'.versions).files # <<>>
             /\ last'.download = "ok" )
           => EntryOf(ledger'[last'.cat], last'.pid).version = Head(last'.versions).version_number ]_vars

\* update of all categories: p2 was checked, then p1 was not updated (its
\* download broke off), then p3 in the last category was updated
C7_Witness ==
    /\ UpdateReturned /\ ucat = "all"
    /\ checked = << <<"mods", "p2">>, <<"mods", "p1">>, <<"shaderpacks", "p3">> >>
    /\ EntryOf(ledger["mods"], "p1").version = <<"v", 1>>
    /\ dir["mods"]["fa"] = "partial"
    /\ last.outcome = "updated" /\ last.pid = "p3"

(* C8: the candidates of uninstall, and of update with a name filter, are
   exactly the entries of the category whose lower-cased display name
   contains the lower-cased query as a substring; update works on every such
   entry and on no other, and on every entry without a name filter. *)
C8_SubstringCandidates ==
    /\ [][ /\ last'.op = "uninstall" =>
                LET ms == Candidates(ledger[last'.cat], last'.query)
                IN  /\ (last'.outcome = "no_match") <=> (ms = <<>>)
                    /\ (last'.sel # NoSel) <=> (Len(ms) > 1)
                    /\ (last'.pid # "none") => \E i \in 1..Len(ms) : ms[i].id = last'.pid
                    /\ (Len(ms) = 1) => last'.pid = ms[1].id
           /\ last'.op = "update_select" =>
                items' = UpdateCandidates(ledger[last'.cat], last'.query)
           /\ last'.op = "update" =>
                /\ \E i \in 1..Len(UpdateCandidates(ledger[last'.cat], last'.query)) :
                      UpdateCandidates(ledger[last'.cat], last'.query)[i].id = last'.pid
                /\ \A c \in Categories :
                      \A i \in 1..Len(ledger[c]) :
                          (c # last'.cat \/ ledger[c][i].id # last'.pid) => ledger'[c][i] = ledger[c][i] ]_vars
    /\ [](UpdateReturned =>
            {checked[i] : i \in 1..Len(checked)}
               = UNION { {<<UpdateCategories(ucat)[k], e.id>> :
                             e \in {x \in {ledger[UpdateCategories(ucat)[k]][j] :
                                               j \in 1..Len(ledger[UpdateCategories(ucat)[k]])} :
                                       uquery = <<>> \/ Contains(ToLower(x.name), ToLower(uquery))}} :
                         k \in 1..Len(UpdateCategories(ucat)) })

\* the query "aB" selects "Ab" (p1) and "aBa" (p2) for update
C8_Witness ==
    /\ last.op = "update_select" /\ last.cat = "mods"
    /\ uquery = <<"a", "B">>
    /\ Len(items) = 2
    /\ items[1].id = "p1" /\ items[1].name = <<"A", "b">>

(* C9: an identifier enters a bucket only by a successful install of it in
   that category and leaves it only by an uninstall whose target it is;
   update adds and removes no identifier and keeps every display name; list
   and search-without-install change nothing; no identifier is twice in a
   bucket. *)
C9_EntryLifecycle ==
    [][ \A c \in Categories :
          LET before == Ids(ledger[c])
              after == Ids(ledger'[c])
          IN  /\ \A p \in after \ before :
                    last'.op = "install" /\ last'.cat = c /\ last'.pid = p /\ last'.download = "ok"
              /\ \A p \in before \ after :
                    last'.op = "uninstall" /\ last'.cat = c /\ last'.pid = p
              /\ last'.op \in {"update_call", "update_select", "update"} =>
                    /\ Len(ledger'[c]) = Len(ledger[c])
                    /\ \A i \in 1..Len(ledger[c]) :
                          /\ ledger'[c][i].id = ledger[c][i].id
                          /\ ledger'[c][i].name = ledger[c][i].name
              /\ last'.op \in {"list", "search"} => ledger'[c] = ledger[c]
              /\ Cardinality(after) = Len(ledger'[c]) ]_vars

\* p1 was updated beside p2: both identifiers are still there, under their names
C9_Witness ==
    /\ last.op = "update" /\ last.outcome = "updated" /\ last.pid = "p1"
    /\ Len(ledger["mods"]) = 2
    /\ EntryOf(ledger["mods"], "p1").name = <<"A", "b">>
    /\ EntryOf(ledger["mods"], "p1").version = <<"v", MaxVersions>>
    /\ "p2" \in Ids(ledger["mods"])

(* C10: every change of the in-memory ledger is saved in full within the
   same step, before another entry is processed or the operation returns:
   at every step boundary the ledger file, once written, equals the
   in-memory ledger; a step that mutates nothing (list, search, a failed or
   skipped install, uninstall or update step) does not write the file. *)
C10_SavedAfterEveryMutation ==
    /\ [](ledger = IF persisted.state = "ok" THEN persisted.content ELSE EmptyLedger)
    /\ [][ /\ ledger' # ledger => (last'.saved /\ persisted'.state = "ok")
           /\ last'.outcome \notin {"installed", "uninstalled", "updated"} =>
                 (~last'.saved /\ persisted' = persisted /\ ledger' = ledger) ]_vars

\* in the middle of an update: p2 was updated and saved, p1 is still to be checked
C10_Witness ==
    /\ pc = "update_item" /\ last.op = "update" /\ last.saved /\ last.pid = "p2"
    /\ items # <<>> /\ Head(items).id = "p1"
    /\ OnDisk(ledger)
    /\ EntryOf(ledger["mods"], "p2").version = Head(last.versions).version_number

(* C11: a transport failure during the download of install or update
   mutates no state: the ledger, the ledger file and the category directory
   are as before the step; no new or partial file is left at the destination
   and an existing file of that name keeps its content. *)
C11_FailedDownloadMutatesNothing ==
    [][ (last'.op \in {"install", "update"} /\ DownloadFailed(last'))
        => (ledger' = ledger /\ persisted' = persisted /\ dir' = dir) ]_vars

(* C12: from an empty ledger and empty directories, without external change
   of the directories and without I/O failure, every entry of every bucket
   names a file that is present in the directory of its category; also when
   two identifiers of a category have the same filename and one of them is
   uninstalled, and when an update deletes an old file that another entry
   names. *)
C12_EveryEntryHasItsFile ==
    \A c \in Categories :
        \A i \in 1..Len(ledger[c]) : dir[c][ledger[c][i].filename] # "absent"

====
